---- MODULE Spec2Model ----
(***************************************************************************)
(* Model of src/App.js: the Sudoku grid generator (generateSudokuGrid /    *)
(* fillGrid / isValidPlacement), the puzzle deriver (createPuzzle) and the *)
(* editing session held in the App component's state (solution,            *)
(* originalPuzzle, puzzle, history, historyIndex, selectedCell) with its   *)
(* handlers.  Grids are functions row -> col -> value, indices are 0-based *)
(* as in the source, and the JavaScript null of an empty cell is 0.        *)
(* history is a TLA+ sequence, so the source's history[i] is history[i+1]. *)
(***************************************************************************)
EXTENDS Integers, Sequences, FiniteSets, TLC

\* ------------------------------------------------------------------------
\* Bounds of the model
\* ------------------------------------------------------------------------
\* Side of a box; the board has Box*Box rows and columns (3 and 9 in App.js).
Box == 2
\* createPuzzle's Math.random() draws fall on the first RandSpan cells
\* (row-major) of the board.
RandSpan == 2
\* The difficulty passed to createPuzzle by the session (40 in App.js).
Removal == 1
\* The keypad numbers pressed are 1..MaxNum.
MaxNum == 1
\* handleNumberClick is not pressed once the log holds MaxHist snapshots.
MaxHist == 3
\* Number of candidate orders the shuffle in fillGrid chooses among.
NumShuffles == 2

\* ------------------------------------------------------------------------
\* Grids
\* ------------------------------------------------------------------------
N == Box * Box
Idx == 0 .. (N - 1)
null == 0
Nums == 1 .. N
Cells == Idx \X Idx
NoCell == <<>>

EmptyGrid == [r \in Idx |-> [c \in Idx |-> null]]

\* The value of a grid variable of a part of the program that is not running.
NoGrid == <<>>

\* grid[row][col] = v on a copy of grid
SetCell(grid, row, col, v) == [grid EXCEPT ![row][col] = v]

\* isValidPlacement without the scan of the box (App.js 11-17 left out)
isValidPlacementNoBox(grid, row, col, num) ==
    \A i \in Idx : ~(grid[row][i] = num \/ grid[i][col] = num)

\* Utility to check if placing a number is valid (App.js 6-19)
isValidPlacement(grid, row, col, num) ==
    LET startRow == (row \div Box) * Box
        startCol == (col \div Box) * Box
    IN  /\ \A i \in Idx : ~(grid[row][i] = num \/ grid[i][col] = num)
        /\ \A i \in 0 .. (Box - 1) : \A j \in 0 .. (Box - 1) :
              grid[startRow + i][startCol + j] # num

\* ------------------------------------------------------------------------
\* createPuzzle (App.js 51-66): every grid the removal loop can return
\* ------------------------------------------------------------------------
RandCells == { <<i \div N, i % N>> : i \in 0 .. (RandSpan - 1) }

RECURSIVE createPuzzleLoop(_, _)
createPuzzleLoop(puzzle, attempts) ==
    IF ~(attempts > 0)
    THEN {puzzle}
    ELSE UNION { createPuzzleLoop(SetCell(puzzle, rc[1], rc[2], null), attempts - 1) :
                    rc \in { x \in RandCells : puzzle[x[1]][x[2]] # null } }

createPuzzle(grid, difficulty) == createPuzzleLoop(grid, difficulty)

\* ------------------------------------------------------------------------
\* Grids generateSudokuGrid returns, as the session receives them.  The
\* search itself is the generator specification further below, which reaches
\* each of these grids as a result.
\* ------------------------------------------------------------------------
BaseGrid == [r \in Idx |-> [c \in Idx |-> (((r % Box) * Box + (r \div Box) + c) % N) + 1]]
MirrorGrid == [r \in Idx |-> [c \in Idx |-> (N + 1) - BaseGrid[r][c]]]
GeneratedGrids == {BaseGrid, MirrorGrid}

\* ------------------------------------------------------------------------
\* State
\* ------------------------------------------------------------------------
VARIABLES
    solution,        \* useState(generateSudokuGrid())
    originalPuzzle,  \* useState(createPuzzle(solution, 40))
    puzzle,          \* mutable copy for playing
    history,         \* puzzle history
    historyIndex,    \* 0-based cursor into history
    selectedCell,    \* NoCell or <<row, col>>
    lastOp,          \* the handler that ran last
    alert,           \* title of the Alert.alert the last handler raised, or "none"
    cut,             \* snapshots the last handler sliced off the end of history
    thrown,          \* the exception the last handler ended with, or "none"
    grid,            \* generateSudokuGrid: the grid being filled
    stack,           \* generateSudokuGrid: the active fillGrid calls
    genpc,           \* generateSudokuGrid: control position
    cpGrid,          \* createPuzzle: the grid passed in
    cpPuzzle,        \* createPuzzle: puzzle
    difficulty,      \* createPuzzle: the difficulty passed in
    attempts,        \* createPuzzle: attempts
    cppc             \* createPuzzle: control position

sessionVars == <<solution, originalPuzzle, puzzle, history, historyIndex, selectedCell,
                 lastOp, alert, cut, thrown>>
genVars == <<grid, stack, genpc>>
deriveVars == <<cpGrid, cpPuzzle, difficulty, attempts, cppc>>
vars == <<solution, originalPuzzle, puzzle, history, historyIndex, selectedCell,
          lastOp, alert, cut, thrown, grid, stack, genpc,
          cpGrid, cpPuzzle, difficulty, attempts, cppc>>

\* The generator is not running during a session.
GenIdle == grid = NoGrid /\ stack = <<>> /\ genpc = "idle"

\* No createPuzzle call is being followed step by step.
DeriveIdle ==
    /\ cpGrid = NoGrid
    /\ cpPuzzle = NoGrid
    /\ difficulty = 0
    /\ attempts = 0
    /\ cppc = "idle"

\* ------------------------------------------------------------------------
\* Session: construction (App.js 69-74)
\* ------------------------------------------------------------------------
Init ==
    /\ solution \in GeneratedGrids
    /\ originalPuzzle \in createPuzzle(solution, Removal)
    /\ puzzle = [r \in Idx |-> [c \in Idx |-> originalPuzzle[r][c]]]
    /\ history = <<originalPuzzle>>
    /\ historyIndex = 0
    /\ selectedCell = NoCell
    /\ lastOp = "init"
    /\ alert = "none"
    /\ cut = 0
    /\ thrown = "none"
    /\ GenIdle
    /\ DeriveIdle

\* ------------------------------------------------------------------------
\* Session: handlers
\* ------------------------------------------------------------------------
\* JavaScript's undefined: what reading an array outside its indices gives
undefined == 0 - 1

\* originalPuzzle[row][col] for a row that exists
cellAt(g, row, col) == IF col \in Idx THEN g[row][col] ELSE undefined

\* App.js 76-79.  For a row outside the array originalPuzzle[row] is undefined
\* and reading [col] of it throws a TypeError before any state is set.
handleCellClick(row, col) ==
    /\ IF row \notin Idx
       THEN /\ thrown' = "TypeError"
            /\ UNCHANGED selectedCell
       ELSE /\ thrown' = "none"
            /\ IF cellAt(originalPuzzle, row, col) # null
               THEN UNCHANGED selectedCell
               ELSE selectedCell' = <<row, col>>
    /\ lastOp' = "handleCellClick"
    /\ alert' = "none"
    /\ cut' = 0
    /\ UNCHANGED <<solution, originalPuzzle, puzzle, history, historyIndex>>
    /\ UNCHANGED <<genVars, deriveVars>>

\* newHistoryOf without the slice: [...history, newPuzzle]
newHistoryOfKeepAll(h, hi, newPuzzle) == Append(h, newPuzzle)

\* App.js 93: [...history.slice(0, historyIndex + 1), newPuzzle]
newHistoryOf(h, hi, newPuzzle) == Append(SubSeq(h, 1, hi + 1), newPuzzle)

\* isEditable without the test of originalPuzzle
isEditableAlways(orig, row, col) == TRUE

\* App.js 88: allow changes only in empty cells
isEditable(orig, row, col) == orig[row][col] = null

\* the missing selection passed over in silence
missingSelectionSilent == "none"

\* App.js 83: Alert.alert("Select a Cell", ...)
missingSelectionAlert == "Select a Cell"

\* the number written at [col][row]
newPuzzleOfSwapped(p, row, col, num) == SetCell(p, col, row, num)

\* App.js 90-91: a deep copy of puzzle with num at (row, col)
newPuzzleOf(p, row, col, num) == SetCell(p, row, col, num)

\* the write landing in the snapshot at the cursor, as it does when no copy
\* is made and puzzle is that snapshot's array
logAfterWriteInPlace(h, hi, row, col, num) ==
    [h EXCEPT ![hi + 1] = SetCell(h[hi + 1], row, col, num)]

\* App.js 90-91: the rows written are the new ones puzzle.map((r) => r.slice())
\* built, so the arrays held in history are as they were
logAfterWrite(h, hi, row, col, num) == h

\* App.js 81-99
handleNumberClick(num) ==
    /\ lastOp' = "handleNumberClick"
    /\ thrown' = "none"
    /\ UNCHANGED <<solution, originalPuzzle>>
    /\ UNCHANGED <<genVars, deriveVars>>
    /\ IF selectedCell = NoCell
       THEN /\ alert' = missingSelectionAlert
            /\ cut' = 0
            /\ UNCHANGED <<puzzle, history, historyIndex, selectedCell>>
       ELSE LET row == selectedCell[1]
                col == selectedCell[2]
            IN  IF isEditable(originalPuzzle, row, col)
                THEN LET newPuzzle == newPuzzleOf(puzzle, row, col, num)
                         newHistory == newHistoryOf(logAfterWrite(history, historyIndex,
                                                                  row, col, num),
                                                    historyIndex, newPuzzle)
                     IN  /\ Len(newHistory) <= MaxHist
                         /\ history' = newHistory
                         /\ historyIndex' = Len(newHistory) - 1
                         /\ puzzle' = newPuzzle
                         /\ selectedCell' = NoCell
                         /\ alert' = "none"
                         /\ cut' = Len(history) - (historyIndex + 1)
                ELSE /\ alert' = "none"
                     /\ cut' = 0
                     /\ UNCHANGED <<puzzle, history, historyIndex, selectedCell>>

\* The part of the state undo and redo read and write.
Log == [puzzle |-> puzzle, history |-> history, historyIndex |-> historyIndex]

\* undo that moves the cursor but shows the snapshot it came from
undoResultStale(s) ==
    IF s.historyIndex > 0
    THEN [s EXCEPT !.historyIndex = s.historyIndex - 1,
                   !.puzzle = s.history[s.historyIndex + 1]]
    ELSE s

\* undo without the test historyIndex > 0 (history[-1] is undefined: the
\* puzzle shown is then left as it is)
undoResultNoGuard(s) ==
    [s EXCEPT !.historyIndex = s.historyIndex - 1,
              !.puzzle = IF s.historyIndex > 0 THEN s.history[s.historyIndex] ELSE s.puzzle]

\* App.js 101-106
undoResult(s) ==
    IF s.historyIndex > 0
    THEN [s EXCEPT !.historyIndex = s.historyIndex - 1,
                   !.puzzle = s.history[(s.historyIndex - 1) + 1]]
    ELSE s

\* redo that moves the cursor but shows the snapshot it came from
redoResultStale(s) ==
    IF s.historyIndex < Len(s.history) - 1
    THEN [s EXCEPT !.historyIndex = s.historyIndex + 1,
                   !.puzzle = s.history[s.historyIndex + 1]]
    ELSE s

\* redo without the test historyIndex < history.length - 1 (history[length]
\* is undefined: the puzzle shown is then left as it is)
redoResultNoGuard(s) ==
    [s EXCEPT !.historyIndex = s.historyIndex + 1,
              !.puzzle = IF s.historyIndex < Len(s.history) - 1
                         THEN s.history[(s.historyIndex + 1) + 1] ELSE s.puzzle]

\* App.js 108-113
redoResult(s) ==
    IF s.historyIndex < Len(s.history) - 1
    THEN [s EXCEPT !.historyIndex = s.historyIndex + 1,
                   !.puzzle = s.history[(s.historyIndex + 1) + 1]]
    ELSE s

SetLog(s) ==
    /\ puzzle' = s.puzzle
    /\ history' = s.history
    /\ historyIndex' = s.historyIndex

undo ==
    /\ SetLog(undoResult(Log))
    /\ lastOp' = "undo"
    /\ thrown' = "none"
    /\ alert' = "none"
    /\ cut' = 0
    /\ UNCHANGED <<solution, originalPuzzle, selectedCell>>
    /\ UNCHANGED <<genVars, deriveVars>>

redo ==
    /\ SetLog(redoResult(Log))
    /\ lastOp' = "redo"
    /\ thrown' = "none"
    /\ alert' = "none"
    /\ cut' = 0
    /\ UNCHANGED <<solution, originalPuzzle, selectedCell>>
    /\ UNCHANGED <<genVars, deriveVars>>

\* App.js 115-119: two separate createPuzzle calls
resetResults(sol) ==
    { [puzzle |-> p, history |-> <<h>>, historyIndex |-> 0] :
         p \in createPuzzle(sol, Removal), h \in createPuzzle(sol, Removal) }

\* a reset that also generates a new solution
solutionAfterResetNew(sol) == GeneratedGrids

\* App.js 115-119: reset calls no setSolution
solutionAfterReset(sol) == {sol}

reset ==
    /\ \E s \in resetResults(solution) : SetLog(s)
    /\ solution' \in solutionAfterReset(solution)
    /\ lastOp' = "reset"
    /\ thrown' = "none"
    /\ alert' = "none"
    /\ cut' = 0
    /\ UNCHANGED <<originalPuzzle, selectedCell>>
    /\ UNCHANGED <<genVars, deriveVars>>

\* isCorrect that lets an empty cell pass
isCorrectLoose(p, sol) == \A rowIndex \in Idx : \A colIndex \in Idx :
                             \/ p[rowIndex][colIndex] = null
                             \/ p[rowIndex][colIndex] = sol[rowIndex][colIndex]

\* App.js 122-124
isCorrect(p, sol) == \A rowIndex \in Idx : \A colIndex \in Idx :
                        p[rowIndex][colIndex] = sol[rowIndex][colIndex]

\* App.js 121-130
checkSolution ==
    /\ alert' = IF isCorrect(puzzle, solution) THEN "Congratulations!" ELSE "Incorrect"
    /\ lastOp' = "checkSolution"
    /\ thrown' = "none"
    /\ cut' = 0
    /\ UNCHANGED <<solution, originalPuzzle, puzzle, history, historyIndex, selectedCell>>
    /\ UNCHANGED <<genVars, deriveVars>>

\* App.js 168-170
clearedPuzzleOf(p, orig) ==
    [rowIndex \in Idx |-> [colIndex \in Idx |->
        IF orig[rowIndex][colIndex] = null THEN null ELSE p[rowIndex][colIndex]]]

\* App.js 167-175
clearUserInputs ==
    LET clearedPuzzle == clearedPuzzleOf(puzzle, originalPuzzle)
    IN  /\ puzzle' = clearedPuzzle
        /\ history' = <<clearedPuzzle>>
        /\ historyIndex' = 0
        /\ lastOp' = "clearUserInputs"
        /\ thrown' = "none"
        /\ alert' = "none"
        /\ cut' = 0
        /\ UNCHANGED <<solution, originalPuzzle, selectedCell>>
        /\ UNCHANGED <<genVars, deriveVars>>

\* App.js 204-213: onPress of "Generate New Puzzle"
regenerate ==
    \E newSolution \in GeneratedGrids :
      \E newOriginalPuzzle \in createPuzzle(newSolution, Removal) :
        /\ solution' = newSolution
        /\ originalPuzzle' = newOriginalPuzzle
        /\ puzzle' = [r \in Idx |-> [c \in Idx |-> newOriginalPuzzle[r][c]]]
        /\ history' = <<newOriginalPuzzle>>
        /\ historyIndex' = 0
        /\ lastOp' = "regenerate"
        /\ thrown' = "none"
        /\ alert' = "none"
        /\ cut' = 0
        /\ UNCHANGED selectedCell
        /\ UNCHANGED <<genVars, deriveVars>>

\* The cells pressed: those createPuzzle can blank, the next one, which is
\* given in every puzzle, and one position past the last row and one past the
\* last column.
ClickCells == { <<i \div N, i % N>> : i \in 0 .. RandSpan } \cup {<<N, 0>>, <<0, N>>}

selectCell == \E rc \in ClickCells : handleCellClick(rc[1], rc[2])
enterValue == \E num \in 1 .. MaxNum : handleNumberClick(num)

Next ==
    \/ selectCell
    \/ enterValue
    \/ undo
    \/ redo
    \/ reset
    \/ checkSolution
    \/ clearUserInputs
    \/ regenerate

Spec == Init /\ [][Next]_vars

\* The editing moves alone: selection, entry, undo and redo.
NextMoves ==
    \/ selectCell
    \/ enterValue
    \/ undo
    \/ redo

SpecMoves == Init /\ [][NextMoves]_vars

\* ------------------------------------------------------------------------
\* generateSudokuGrid (App.js 22-48) as a machine: grid is the closure's
\* grid, stack holds one frame per active fillGrid call (its cell, its
\* shuffled numbers, the position k of the for-of loop in them, and the grid
\* as it was when the call was entered).
\* ------------------------------------------------------------------------
\* App.js 31: sort(() => Math.random() - 0.5) leaves 1..N in some order.  The
\* orders considered are the first NumShuffles of: ascending, descending, and
\* the rotations of the two.
Rotated(j) == [i \in 1 .. N |-> ((i - 1 + j) % N) + 1]
Reversed(s) == [i \in 1 .. N |-> s[(N + 1) - i]]
ShuffleAt(j) == IF j % 2 = 0 THEN Rotated(j \div 2) ELSE Reversed(Rotated(j \div 2))
Shuffles == { ShuffleAt(j) : j \in 0 .. (NumShuffles - 1) }

\* App.js 28-30: the first cell, in row-major order, that is null
NullCells(g) == { rc \in Cells : g[rc[1]][rc[2]] = null }
FirstNull(g) ==
    CHOOSE rc \in NullCells(g) :
        \A o \in NullCells(g) : rc[1] * N + rc[2] <= o[1] * N + o[2]

InitGen ==
    /\ grid = EmptyGrid
    /\ stack = <<>>
    /\ genpc = "call"
    /\ solution = NoGrid
    /\ originalPuzzle = NoGrid
    /\ puzzle = NoGrid
    /\ history = <<NoGrid>>
    /\ historyIndex = 0
    /\ selectedCell = NoCell
    /\ lastOp = "generateSudokuGrid"
    /\ alert = "none"
    /\ cut = 0
    /\ thrown = "none"
    /\ DeriveIdle

\* App.js 27-31 and 43: a fillGrid call is entered
fillGridEnter ==
    /\ genpc = "call"
    /\ IF NullCells(grid) = {}
       THEN /\ genpc' = "retTrue"
            /\ UNCHANGED stack
       ELSE \E numbers \in Shuffles :
              /\ stack' = Append(stack, [row |-> FirstNull(grid)[1],
                                         col |-> FirstNull(grid)[2],
                                         numbers |-> numbers, k |-> 1,
                                         entry |-> grid])
              /\ genpc' = "loop"
    /\ UNCHANGED grid
    /\ UNCHANGED <<sessionVars, deriveVars>>

Top == stack[Len(stack)]
Pop == SubSeq(stack, 1, Len(stack) - 1)

\* App.js 32-35 and 39: one turn of the for-of loop of the innermost call
fillGridTry ==
    /\ genpc = "loop"
    /\ IF Top.k > Len(Top.numbers)
       THEN /\ stack' = Pop
            /\ genpc' = "retFalse"
            /\ UNCHANGED grid
       ELSE LET num == Top.numbers[Top.k]
            IN  IF isValidPlacement(grid, Top.row, Top.col, num)
                THEN /\ grid' = SetCell(grid, Top.row, Top.col, num)
                     /\ genpc' = "call"
                     /\ UNCHANGED stack
                ELSE /\ stack' = [stack EXCEPT ![Len(stack)].k = Top.k + 1]
                     /\ UNCHANGED <<grid, genpc>>
    /\ UNCHANGED <<sessionVars, deriveVars>>

\* the placed number left in the grid after a failed recursive call
unplaceKeep(g, row, col) == g

\* App.js 36: grid[row][col] = null after a failed recursive call
unplace(g, row, col) == SetCell(g, row, col, null)

\* App.js 35-36 and 46-47: a fillGrid call returns to its caller
fillGridReturn ==
    /\ genpc \in {"retTrue", "retFalse"}
    /\ IF stack = <<>>
       THEN /\ genpc' = "done"
            /\ UNCHANGED <<grid, stack>>
       ELSE IF genpc = "retTrue"
            THEN /\ stack' = Pop
                 /\ UNCHANGED <<grid, genpc>>
            ELSE /\ grid' = unplace(grid, Top.row, Top.col)
                 /\ stack' = [stack EXCEPT ![Len(stack)].k = Top.k + 1]
                 /\ genpc' = "loop"
    /\ UNCHANGED <<sessionVars, deriveVars>>

NextGen ==
    \/ fillGridEnter
    \/ fillGridTry
    \/ fillGridReturn

SpecGen == InitGen /\ [][NextGen]_vars

\* The scheduling of a synchronous call: the running search takes its next step.
SpecGenFair == InitGen /\ [][NextGen]_vars /\ WF_vars(NextGen)

\* ------------------------------------------------------------------------
\* createPuzzle (App.js 51-66) followed step by step: one call, with the
\* grid and the difficulty it is given, one Math.random() draw per step.
\* ------------------------------------------------------------------------
\* The difficulties passed in: none, the session's, one more than the
\* session's, every cell, and one more than there are cells.
DifficultyInputs == {0, Removal, Removal + 1, N * N, N * N + 1}

\* App.js 52: grid.map((row) => [...row]) builds new rows, so puzzle shares
\* no row with grid and a write to puzzle is not a write to grid.
puzzleSharesRows == FALSE

InitDerive ==
    /\ cpGrid \in GeneratedGrids
    /\ difficulty \in DifficultyInputs
    /\ cpPuzzle = [r \in Idx |-> [c \in Idx |-> cpGrid[r][c]]]
    /\ attempts = difficulty
    /\ cppc = "loop"
    /\ solution = NoGrid
    /\ originalPuzzle = NoGrid
    /\ puzzle = NoGrid
    /\ history = <<NoGrid>>
    /\ historyIndex = 0
    /\ selectedCell = NoCell
    /\ lastOp = "createPuzzle"
    /\ alert = "none"
    /\ cut = 0
    /\ thrown = "none"
    /\ GenIdle

\* a draw that counts a cell as removed although it was already null
afterDrawNoRetry(p, a, row, col) ==
    [puzzle |-> SetCell(p, row, col, null), attempts |-> a - 1]

\* App.js 59-62: puzzle and attempts after the draw of (row, col)
afterDraw(p, a, row, col) ==
    IF p[row][col] # null
    THEN [puzzle |-> SetCell(p, row, col, null), attempts |-> a - 1]
    ELSE [puzzle |-> p, attempts |-> a]

\* App.js 55-63: one turn of the while loop
createPuzzleDraw(row, col) ==
    /\ cppc = "loop"
    /\ attempts > 0
    /\ LET d == afterDraw(cpPuzzle, attempts, row, col)
       IN  /\ cpPuzzle' = d.puzzle
           /\ attempts' = d.attempts
           /\ cpGrid' = IF puzzleSharesRows THEN d.puzzle ELSE cpGrid
    /\ UNCHANGED <<difficulty, cppc>>
    /\ UNCHANGED <<sessionVars, genVars>>

\* App.js 55 and 65: the loop ends and puzzle is returned
createPuzzleReturn ==
    /\ cppc = "loop"
    /\ ~(attempts > 0)
    /\ cppc' = "done"
    /\ UNCHANGED <<cpGrid, cpPuzzle, difficulty, attempts>>
    /\ UNCHANGED <<sessionVars, genVars>>

NextDerive ==
    \/ \E row \in Idx : \E col \in Idx : createPuzzleDraw(row, col)
    \/ createPuzzleReturn

SpecDerive == InitDerive /\ [][NextDerive]_vars

\* ------------------------------------------------------------------------
\* Properties of createPuzzle
\* ------------------------------------------------------------------------
EmptyCells(g) == { rc \in Cells : g[rc[1]][rc[2]] = null }

\* C11: for every solved grid and every difficulty up to the number of cells,
\* the puzzle createPuzzle returns has exactly difficulty empty cells, each of
\* its other cells equals the cell of the grid passed in, and that grid is
\* still the solved grid it was.
C11_DerivedPuzzle ==
    cppc = "done" =>
        /\ Cardinality(EmptyCells(cpPuzzle)) = difficulty
        /\ \A rc \in Cells \ EmptyCells(cpPuzzle) :
              cpPuzzle[rc[1]][rc[2]] = cpGrid[rc[1]][rc[2]]
        /\ cpGrid \in GeneratedGrids

\* createPuzzle has returned with every cell removed.
C11_Witness == cppc = "done" /\ difficulty = N * N /\ cpPuzzle = EmptyGrid

\* C12: createPuzzle never stays in its loop with removals still owed and no
\* cell left to remove, the state from which no draw can ever end the loop.
C12_DeriveNeverSpins ==
    (cppc = "loop" /\ attempts > 0) => EmptyCells(cpPuzzle) # Cells

\* ------------------------------------------------------------------------
\* Properties of the generator
\* ------------------------------------------------------------------------
RowVals(g, r) == { g[r][c] : c \in Idx }
ColVals(g, c) == { g[r][c] : r \in Idx }
BoxVals(g, br, bc) == { g[br * Box + i][bc * Box + j] : i \in 0 .. (Box - 1), j \in 0 .. (Box - 1) }

SolvedGrid(g) ==
    /\ \A r \in Idx : RowVals(g, r) = Nums
    /\ \A c \in Idx : ColVals(g, c) = Nums
    /\ \A br \in 0 .. (Box - 1) : \A bc \in 0 .. (Box - 1) : BoxVals(g, br, bc) = Nums

\* C10: for every order the shuffle produces at every cell, generateSudokuGrid
\* terminates, and the grid it returns has no empty cell and every row, column
\* and box of it is a permutation of 1..N.
C10_GeneratorSolves ==
    /\ <>(genpc = "done")
    /\ [](genpc = "done" => SolvedGrid(grid))

\* generateSudokuGrid has returned one of the grids the session model starts from.
C10_Witness == genpc = "done" /\ grid \in GeneratedGrids

\* C17: when a fillGrid call returns false the grid is cell for cell the grid
\* the call was entered with, and when its caller takes up its loop again the
\* cell the caller had placed is empty, so that the grid is the one the caller
\* was entered with.
C17_FailedCallRestoresGrid ==
    [][/\ (genpc = "loop" /\ genpc' = "retFalse") => grid' = Top.entry
       /\ (genpc = "retFalse" /\ stack # <<>>) =>
             /\ grid'[Top.row][Top.col] = null
             /\ grid' = Top.entry]_vars

\* A fillGrid call has returned false to the call that made it, which then
\* went on to another candidate.
C17_Witness ==
    /\ genpc = "loop"
    /\ stack # <<>>
    /\ Top.k > 1
    /\ \E j \in 1 .. (Top.k - 1) : isValidPlacement(grid, Top.row, Top.col, Top.numbers[j])

\* ------------------------------------------------------------------------
\* Properties of the session
\* ------------------------------------------------------------------------
Given(r, c) == originalPuzzle[r][c] # null

\* C1: after any sequence of selectCell, enterValue, undo and redo from the
\* initial state, the snapshot at the cursor equals the current puzzle cell
\* for cell.
C1_CursorSnapshotIsPuzzle ==
    /\ historyIndex + 1 \in DOMAIN history
    /\ \A r \in Idx : \A c \in Idx : history[historyIndex + 1][r][c] = puzzle[r][c]

\* Two entries were made and undone, and one of them redone.
C1_Witness ==
    /\ lastOp = "redo"
    /\ Len(history) >= 3
    /\ historyIndex = 1
    /\ history[2] # history[1]

\* C2: in every reachable state every cell given in originalPuzzle holds, in
\* puzzle, the value of the corresponding solution cell.
C2_GivenCellsHoldSolution ==
    \A r \in Idx : \A c \in Idx : Given(r, c) => puzzle[r][c] = solution[r][c]

\* C3: immediately after reset the log has length 1, the cursor is 0 and the
\* one snapshot equals puzzle cell for cell.
C3_ResetInstallsOnePuzzle ==
    lastOp = "reset" =>
        /\ Len(history) = 1
        /\ historyIndex = 0
        /\ history[1] = puzzle

\* C4: the puzzle produced by clearUserInputs equals originalPuzzle exactly.
C4_ClearRestoresOriginal ==
    lastOp = "clearUserInputs" => puzzle = originalPuzzle

\* Every log state undo and redo lead to from s (s included).
RECURSIVE UndoRedoClosure(_)
UndoRedoClosure(S) ==
    LET T == S \cup { undoResult(s) : s \in S } \cup { redoResult(s) : s \in S }
    IN  IF T = S THEN S ELSE UndoRedoClosure(T)

\* A step in which handleNumberClick accepts the number.
EnterAccepted ==
    /\ lastOp' = "handleNumberClick"
    /\ selectedCell # NoCell
    /\ ~Given(selectedCell[1], selectedCell[2])

\* C5: when handleNumberClick accepts a number with cursor c, the new log is
\* the old snapshots 0..c followed by the new snapshot, its length is c+2, the
\* cursor is c+1, and undo and redo lead only to those snapshots from then on.
C5_BranchTruncation ==
    [][EnterAccepted =>
         /\ Len(history') = historyIndex + 2
         /\ historyIndex' = historyIndex + 1
         /\ \A i \in 1 .. (historyIndex + 1) : history'[i] = history[i]
         /\ history'[historyIndex + 2] = puzzle'
         /\ \A t \in UndoRedoClosure({Log'}) :
               \E i \in 1 .. (historyIndex + 2) :
                   t.puzzle = history'[i] /\ t.historyIndex = i - 1]_vars

\* A number was accepted while snapshots lay beyond the cursor.
C5_Witness == lastOp = "handleNumberClick" /\ cut > 0

\* C6: with historyIndex > 0, undo then redo restores historyIndex, history
\* and puzzle; with historyIndex below the last index, redo then undo does.
C6_UndoRedoInverse ==
    /\ historyIndex > 0 =>
          /\ undoResult(Log) # Log
          /\ redoResult(undoResult(Log)) = Log
    /\ historyIndex < Len(history) - 1 =>
          /\ redoResult(Log) # Log
          /\ undoResult(redoResult(Log)) = Log

\* A redo has moved the cursor to the middle of the log.
C6_Witness ==
    /\ lastOp = "redo"
    /\ historyIndex > 0
    /\ historyIndex < Len(history) - 1

\* C7: the log is never empty and historyIndex is a valid index into it.
C7_CursorValid ==
    /\ Len(history) >= 1
    /\ historyIndex >= 0
    /\ historyIndex < Len(history)

\* undo has reached the first snapshot of a log of several.
C7_Witness == lastOp = "undo" /\ historyIndex = 0 /\ Len(history) > 1

\* C8: selectedCell is null or refers to a cell that is empty in originalPuzzle.
C8_SelectionEditable ==
    selectedCell = NoCell \/ ~Given(selectedCell[1], selectedCell[2])

\* C9: handleNumberClick leaves every given cell of puzzle as it was.
C9_EnterKeepsGivenCells ==
    [][lastOp' = "handleNumberClick" =>
         \A r \in Idx : \A c \in Idx : Given(r, c) => puzzle'[r][c] = puzzle[r][c]]_vars

\* A number was pressed while the selection, left from before a regenerate,
\* was on a given cell.
C9_Witness ==
    /\ lastOp = "handleNumberClick"
    /\ selectedCell # NoCell
    /\ Given(selectedCell[1], selectedCell[2])

\* The cells in which p differs from the solution.
Mismatches(p) == { rc \in Cells : p[rc[1]][rc[2]] # solution[rc[1]][rc[2]] }

\* C13: checkSolution reports success exactly when every cell of puzzle equals
\* the solution cell; it succeeds on the solution itself and fails on the
\* puzzle as derived, which has empty cells.
C13_CheckSolution ==
    lastOp = "checkSolution" =>
        /\ alert \in {"Congratulations!", "Incorrect"}
        /\ alert = "Congratulations!" <=> Mismatches(puzzle) = {}
        /\ puzzle = solution => alert = "Congratulations!"
        /\ (puzzle = originalPuzzle /\ Removal > 0) => alert = "Incorrect"

\* checkSolution has reported success on a puzzle the player completed.
C13_Witness ==
    /\ lastOp = "checkSolution"
    /\ alert = "Congratulations!"
    /\ Len(history) > 1

\* A press handleCellClick is to ignore: outside the board, or on a given cell.
InvalidClick(row, col) ==
    IF row \in Idx /\ col \in Idx THEN Given(row, col) ELSE TRUE

\* C14: handleCellClick on a given cell, or with a row or column outside the
\* board, leaves selectedCell and the rest of the session as they were and
\* throws nothing.
C14_InvalidSelectionNoOp ==
    [][\A rc \in ClickCells :
          (InvalidClick(rc[1], rc[2]) /\ handleCellClick(rc[1], rc[2])) =>
              /\ thrown' = "none"
              /\ UNCHANGED <<solution, originalPuzzle, puzzle, history, historyIndex,
                             selectedCell>>]_vars

\* C15: handleNumberClick with no cell selected raises the "Select a Cell"
\* alert and changes nothing.
C15_EnterWithoutSelection ==
    [][(lastOp' = "handleNumberClick" /\ selectedCell = NoCell) =>
          /\ alert' = "Select a Cell"
          /\ thrown' = "none"
          /\ UNCHANGED <<solution, originalPuzzle, puzzle, history, historyIndex,
                         selectedCell>>]_vars

\* A number was pressed with no cell selected, after an entry had been made.
C15_Witness ==
    /\ lastOp = "handleNumberClick"
    /\ alert = "Select a Cell"
    /\ selectedCell = NoCell
    /\ Len(history) > 1

\* C16: a step that replaces solution is a regenerate; selection, entry, undo,
\* redo, reset, clearUserInputs and checkSolution leave solution as it is.
C16_OnlyRegenerateReplacesSolution ==
    [][solution' # solution => lastOp' = "regenerate"]_vars

\* reset has installed new puzzles (and left the solution).
C16_Witness ==
    /\ lastOp = "reset"
    /\ puzzle # history[1]
    /\ solution \in GeneratedGrids

\* C18: an accepted handleNumberClick(num) changes puzzle in the selected cell
\* only, which then holds num; solution and originalPuzzle are unchanged and
\* selectedCell is null afterwards.
C18_EnterWritesSelectedCell ==
    [][\A num \in 1 .. MaxNum :
          (EnterAccepted /\ handleNumberClick(num)) =>
              /\ puzzle'[selectedCell[1]][selectedCell[2]] = num
              /\ \A rc \in Cells : rc # selectedCell =>
                    puzzle'[rc[1]][rc[2]] = puzzle[rc[1]][rc[2]]
              /\ solution' = solution
              /\ originalPuzzle' = originalPuzzle
              /\ selectedCell' = NoCell]_vars

\* A number was accepted into a cell other than the first of the board.
C18_Witness ==
    /\ lastOp = "handleNumberClick"
    /\ alert = "none"
    /\ selectedCell = NoCell
    /\ puzzle[0][1] # null
    /\ originalPuzzle[0][1] = null

\* C19: undo at historyIndex 0 and redo at the last index leave puzzle,
\* history, historyIndex and selectedCell as they were; after clearUserInputs
\* the cursor is at both ends, so undo and redo are both such no-ops.
C19_BoundaryNoOps ==
    /\ [][(\/ lastOp' = "undo" /\ historyIndex = 0
           \/ lastOp' = "redo" /\ historyIndex = Len(history) - 1) =>
             UNCHANGED <<puzzle, history, historyIndex, selectedCell>>]_vars
    /\ [](lastOp = "clearUserInputs" =>
             (historyIndex = 0 /\ historyIndex = Len(history) - 1))

\* redo was pressed on the one-snapshot log a reset left, whose snapshot is
\* not the puzzle shown.
C19_Witness ==
    /\ lastOp = "redo"
    /\ Len(history) = 1
    /\ puzzle # history[1]

\* The handlers that set history to a new one-snapshot log.
Reinitializers == {"reset", "clearUserInputs", "regenerate"}

\* C20: a snapshot stays in the log, cell for cell as it was, until an accepted
\* entry truncates it or the log is reinitialized; originalPuzzle and solution
\* change only when regenerate replaces them.
C20_SnapshotsImmutable ==
    [][/\ lastOp' \notin Reinitializers =>
            \A i \in 1 .. Len(history) :
               (EnterAccepted => i <= historyIndex + 1) =>
                   (i <= Len(history') /\ history'[i] = history[i])
       /\ originalPuzzle' # originalPuzzle => lastOp' = "regenerate"
       /\ solution' # solution => lastOp' = "regenerate"]_vars

\* A second number was accepted on top of two snapshots: the original puzzle
\* and the one the first number made of it.
C20_Witness ==
    /\ lastOp = "handleNumberClick"
    /\ Len(history) = 3
    /\ historyIndex = 2
    /\ history[1] = originalPuzzle
    /\ history[2] # history[1]

====
